---- MODULE Spec2Model ----
(***************************************************************************)
(* Model of searchConf.py: the background search worker, the result queue  *)
(* and the foreground (Tk) handlers of FileSearchGUI, together with the    *)
(* walker (_iter_files) and the matcher (_file_contains_text).             *)
(*                                                                         *)
(* Text is a sequence of one-character strings, a file's content a         *)
(* sequence of bytes (named by short strings), and a path is the id of a   *)
(* file of the fixed tree FS.                                              *)
(***************************************************************************)
EXTENDS Integers, Sequences, FiniteSets, TLC

(***************************************************************************)
(* Bounds of the model.                                                    *)
(***************************************************************************)
\* searches accepted in one run
MaxSearches == 2
\* the count of file-system operations started after the stop request is
\* kept up to this value
MaxCount == 3
\* I/O faults (a listing or an open that raises) injected in one run
MaxFaults == 1
\* length of the byte strings and of the queries of the matcher's own check
MaxBytes == 2
MaxQuery == 1
\* length of the extension texts of the normalization's own check
MaxExt == 3
\* callbacks handed to the foreground with root.after and not yet run
MaxAfter == 2
\* failed registrations of the global hotkey in one run
MaxHkFails == 2
\* keys held by the settings store of load_settings' own check
\* WM_HOTKEY messages waiting in the listener thread's message queue
MaxMsgs == 2

\* characters of a file name handed to the name filter
MaxName == 4

MaxStored == 2

(***************************************************************************)
(* Strings.                                                                *)
(***************************************************************************)
SENTINEL == "__SEARCH_DONE__"

StartsWith(s, p) == Len(s) >= Len(p) /\ SubSeq(s, 1, Len(p)) = p

EndsWith(s, p) == Len(s) >= Len(p) /\ SubSeq(s, Len(s) - Len(p) + 1, Len(s)) = p

HasChar(s, c) == \E i \in 1..Len(s) : s[i] = c

\* `x in line` of Python: x occurs as a contiguous substring
Contains(line, x) ==
    \E i \in 1..(Len(line) + 1) :
        i + Len(x) - 1 <= Len(line) /\ SubSeq(line, i, i + Len(x) - 1) = x

RECURSIVE LStrip(_)
LStrip(s) == IF s # <<>> /\ Head(s) = " " THEN LStrip(Tail(s)) ELSE s

RECURSIVE RStrip(_)
RStrip(s) ==
    IF s # <<>> /\ s[Len(s)] = " " THEN RStrip(SubSeq(s, 1, Len(s) - 1)) ELSE s

\* str.strip()
Strip(s) == RStrip(LStrip(s))

\* str.lower() on the characters of the model
LowerChar(c) == IF c = "P" THEN "p" ELSE IF c = "O" THEN "o" ELSE c

Lower(s) == [i \in 1..Len(s) |-> LowerChar(s[i])]

(***************************************************************************)
(* fnmatch.fnmatch: '*' matches any run of characters, '?' one character,  *)
(* '[seq]' one character of seq and '[!seq]' one character not in seq (a   *)
(* ']' right behind '[' or '[!' is a member, and a '[' that no ']' closes   *)
(* stands for itself), anything else itself.  No name or pattern of the    *)
(* model holds '-', so no class holds a range.  The names of the model     *)
(* hold no upper-case letter and no separator, so os.path.normcase leaves  *)
(* them as they are on every platform.                                     *)
(***************************************************************************)
\* where the class that starts at the head of pat ("[") ends: the index of
\* its closing "]", 0 when there is none
ClassEnd(pat) ==
    LET n == Len(pat)
        j1 == IF 2 <= n /\ pat[2] = "!" THEN 3 ELSE 2
        j2 == IF j1 <= n /\ pat[j1] = "]" THEN j1 + 1 ELSE j1
        closers == {j \in j2..n : pat[j] = "]"}
    IN  IF closers = {} THEN 0
        ELSE CHOOSE j \in closers : \A k \in closers : j <= k

\* whether character c is matched by the class whose inside is stuff
InClass(c, stuff) ==
    LET negate == stuff # <<>> /\ Head(stuff) = "!"
        members == IF negate THEN Tail(stuff) ELSE stuff
    IN  HasChar(members, c) # negate

RECURSIVE fnmatch(_, _)
fnmatch(name, pat) ==
    IF pat = <<>> THEN name = <<>>
    ELSE IF Head(pat) = "*"
         THEN fnmatch(name, Tail(pat))
              \/ (name # <<>> /\ fnmatch(Tail(name), pat))
         ELSE IF Head(pat) = "[" /\ ClassEnd(pat) # 0
         THEN /\ name # <<>>
              /\ InClass(Head(name), SubSeq(pat, 2, ClassEnd(pat) - 1))
              /\ fnmatch(Tail(name), SubSeq(pat, ClassEnd(pat) + 1, Len(pat)))
         ELSE /\ name # <<>>
              /\ (Head(pat) = "?" \/ Head(pat) = Head(name))
              /\ fnmatch(Tail(name), Tail(pat))

\* the name filter of _iter_files: glob match, or suffix comparison for "*.x"
NameFilterSuffixNoDot(name, pattern) ==
    \/ fnmatch(name, pattern)
    \/ (StartsWith(pattern, <<"*", ".">>)
           /\ EndsWith(name, Tail(Tail(pattern))))

NameFilter(name, pattern) ==
    \/ fnmatch(name, pattern)
    \/ (StartsWith(pattern, <<"*", ".">>) /\ EndsWith(name, Tail(pattern)))

\* _on_search_clicked: the extension field stripped, ".conf" when that
\* leaves nothing
DefaultExt == <<".", "c", "o", "n", "f">>

SearchExt(raw) == IF Strip(raw) = <<>> THEN DefaultExt ELSE Strip(raw)

\* _search_worker, first statement: the extension with its leading dot
NormalizedExtAlwaysDot(ext) == <<".">> \o ext

NormalizedExt(ext) ==
    IF StartsWith(ext, <<".">>) \/ HasChar(ext, "*") \/ HasChar(ext, "?")
    THEN ext
    ELSE <<".">> \o ext

\* _search_worker, second statement: the glob handed to _iter_files
Pattern(ext) ==
    LET n == NormalizedExt(ext)
    IN  IF ~(HasChar(n, "*") \/ HasChar(n, "?")) THEN <<"*">> \o n ELSE n

(***************************************************************************)
(* Decoding, as open(path, "r", encoding=enc, errors="replace") does it.   *)
(* Bytes: the ASCII bytes "p", "P", "o", "nl" (line feed) and the high     *)
(* bytes "B0" (0xB0) and "A1" (0xA1).  Characters: the ASCII ones, "RC"    *)
(* (U+FFFD, the replacement character), the KS X 1001 characters "GA"      *)
(* (0xB0A1), "GAT" (0xB0B0), "LDQ" (0xA1B0), "IDSP" (0xA1A1), and the      *)
(* latin-1 characters "DEG" (0xB0) and "IEXCL" (0xA1).                     *)
(***************************************************************************)
AsciiBytes == {"p", "P", "o", "nl"}

HighBytes == {"B0", "A1"}

Bytes == AsciiBytes \cup HighBytes

encodings == <<"utf-8", "cp949", "euc-kr", "latin-1">>

KsChar(lead, trail) ==
    IF lead = "B0" THEN (IF trail = "A1" THEN "GA" ELSE "GAT")
    ELSE (IF trail = "A1" THEN "IDSP" ELSE "LDQ")

\* utf-8: a lone 0xB0 or 0xA1 is never valid, each becomes U+FFFD
DecodeUtf8(bs) == [i \in 1..Len(bs) |-> IF bs[i] \in AsciiBytes THEN bs[i] ELSE "RC"]

\* cp949 and euc-kr: two high bytes make one character; a high byte with no
\* high byte after it becomes U+FFFD
RECURSIVE DecodeKs(_)
DecodeKs(bs) ==
    IF bs = <<>> THEN <<>>
    ELSE IF Head(bs) \in AsciiBytes THEN <<Head(bs)>> \o DecodeKs(Tail(bs))
    ELSE IF Len(bs) >= 2 /\ bs[2] \in HighBytes
         THEN <<KsChar(bs[1], bs[2])>> \o DecodeKs(Tail(Tail(bs)))
         ELSE <<"RC">> \o DecodeKs(Tail(bs))

\* latin-1: every byte is a character
DecodeLatin1(bs) ==
    [i \in 1..Len(bs) |->
        IF bs[i] \in AsciiBytes THEN bs[i] ELSE IF bs[i] = "B0" THEN "DEG" ELSE "IEXCL"]

Decode(enc, bs) ==
    IF enc = "utf-8" THEN DecodeUtf8(bs)
    ELSE IF enc = "latin-1" THEN DecodeLatin1(bs)
    ELSE DecodeKs(bs)

\* whether the bytes are valid in the encoding (a decode with errors="strict"
\* succeeds): no replacement was needed
DecodesStrictly(enc, bs) == ~HasChar(Decode(enc, bs), "RC")

\* the lines a text file yields: split after each line feed
RECURSIVE Lines(_)
Lines(text) ==
    IF text = <<>> THEN <<>>
    ELSE IF \E i \in 1..Len(text) : text[i] = "nl"
         THEN LET k == CHOOSE i \in 1..Len(text) :
                          text[i] = "nl" /\ \A j \in 1..(i - 1) : text[j] # "nl"
              IN  <<SubSeq(text, 1, k)>> \o Lines(SubSeq(text, k + 1, Len(text)))
         ELSE <<text>>

\* the scan of an opened file: some line holds the query
ScanLines(text, query, case_sensitive) ==
    LET ls == Lines(text)
    IN  IF case_sensitive
        THEN \E i \in 1..Len(ls) : Contains(ls[i], query)
        ELSE \E i \in 1..Len(ls) : Contains(Lower(ls[i]), Lower(query))

(***************************************************************************)
(* _file_contains_text.  `raises` is the set of encodings whose attempt    *)
(* raises (the open fails, or a read fails before a match is found): the   *)
(* loop goes on to the next encoding, and the first attempt that does not  *)
(* raise decides.                                                          *)
(***************************************************************************)
RECURSIVE TryEncodings(_, _, _, _, _)
TryEncodings(k, bs, query, case_sensitive, raises) ==
    IF k > Len(encodings) THEN FALSE
    ELSE IF encodings[k] \in raises
         THEN TryEncodings(k + 1, bs, query, case_sensitive, raises)
         ELSE ScanLines(Decode(encodings[k], bs), query, case_sensitive)

FileContainsText(bs, query, case_sensitive, raises) ==
    TryEncodings(1, bs, query, case_sensitive, raises)

\* the encodings the loop of _file_contains_text attempts, in order: it goes
\* on after an attempt that raises and returns at the first that does not
RECURSIVE EncodingsTried(_, _)
EncodingsTried(k, raises) ==
    IF k > Len(encodings) THEN <<>>
    ELSE IF encodings[k] \in raises
         THEN <<encodings[k]>> \o EncodingsTried(k + 1, raises)
         ELSE <<encodings[k]>>

(***************************************************************************)
(* The file system the searches run on: a fixed tree.  Entries are listed  *)
(* in the order the directory enumeration returns them.                    *)
(*   R/  x.c  d/  x.t  e/         d = A, e = B                             *)
(*   A/  d/                       d = C                                    *)
(*   C/  z.t                                                               *)
(*   B/  y.c                                                               *)
(***************************************************************************)
Dirs == {"R", "A", "B", "C"}

Files == {"f1", "f2", "f3", "f4"}

DirEntries(d) ==
    IF d = "R" THEN <<"f1", "A", "f2", "B">>
    ELSE IF d = "A" THEN <<"C">>
    ELSE IF d = "C" THEN <<"f3">>
    ELSE <<"f4">>

EntryName(e) ==
    IF e = "f1" THEN <<"x", ".", "c">>
    ELSE IF e = "f2" THEN <<"x", ".", "t">>
    ELSE IF e = "f3" THEN <<"z", ".", "t">>
    ELSE IF e = "f4" THEN <<"y", ".", "c">>
    ELSE IF e = "B" THEN <<"e">>
    ELSE <<"d">>

FileBytes(f) ==
    IF f = "f1" THEN <<"P", "o">>
    ELSE IF f = "f2" THEN <<"p">>
    ELSE IF f = "f3" THEN <<"B0", "A1">>
    ELSE <<"o", "nl", "p">>

\* os.path.isdir / os.path.isfile; "X" is a path that is no directory
IsDir(p) == p \in Dirs

IsFile(p) == p \in Files

\* the (dirs, files) split os.walk makes of one directory listing
WalkFiles(d) == SelectSeq(DirEntries(d), IsFile)

WalkDirs(d) == SelectSeq(DirEntries(d), IsDir)

(***************************************************************************)
(* The lazy traversal of _iter_files.  What the generator still has to do  *)
(* is a sequence of steps:                                                 *)
(*   scan  d   os.walk enumerates directory d             (recursive)      *)
(*   name  f   the name filter on file f of a listing     (recursive)      *)
(*   list  d   os.listdir(d)                              (non-recursive)  *)
(*   entry e   os.path.isfile and the name filter on e    (non-recursive)  *)
(***************************************************************************)
Step(k, e) == [k |-> k, e |-> e]

Steps(k, es) == [i \in 1..Len(es) |-> Step(k, es[i])]

IterFiles(folder, recursive) ==
    IF recursive THEN <<Step("scan", folder)>> ELSE <<Step("list", folder)>>

\* os.walk, a directory that was enumerated: its files, then its subtrees
WalkExpandFlat(d, rest) == Steps("name", WalkFiles(d)) \o rest

WalkExpand(d, rest) ==
    Steps("name", WalkFiles(d)) \o Steps("scan", WalkDirs(d)) \o rest

\* os.listdir that returned: every entry of the folder
ListExpand(d) == Steps("entry", DirEntries(d))

\* whether the entry at the head of the traversal is yielded
Yields(step, pattern) ==
    IF step.k = "name" THEN NameFilter(EntryName(step.e), pattern)
    ELSE IsFile(step.e) /\ NameFilter(EntryName(step.e), pattern)

\* whether the step is a file-system operation
IsIO(step) == step.k \in {"scan", "list", "entry"}

(***************************************************************************)
(* State.                                                                  *)
(***************************************************************************)
VARIABLES
    \* widgets and fields of FileSearchGUI (foreground thread)
    folder_var, query_var, ext_var, recursive_var, case_sensitive_var,
    results, status_var, search_btn, stop_btn,
    focus_results_after_search, folder_history, settings,
    search_thread,      \* 0 (None) or the index of the latest worker
    closed,             \* the root window was destroyed
    \* shared with the worker
    stop_event, result_queue,
    \* the worker threads started so far, in order; each a record
    workers,
    \* history: the paths enqueued and not cleared from the list since, how
    \* many of them the foreground took, the workers whose sentinel it took,
    \* the I/O faults injected so far, whether the foreground has waited in
    \* search_thread.join
    put, taken, doneSeen, faults, joined,
    \* the matcher's own check: the file's bytes, the query, the case flag,
    \* the encodings whose attempt raises and, among them, those whose open
    \* had succeeded (the error came from reading); the result, the encodings
    \* attempted
    m_bytes, m_query, m_case, m_raises, m_opened, m_result, m_tried, m_pc,
    \* the extension normalization's own check: the text of the extension
    \* field and the glob the worker derives from it
    e_raw, e_pattern, e_pc,
    \* load_settings' own check: the settings store and the mapping returned
    l_store, l_result, l_pc,
    \* the window, the tray icon and the global hotkey
    window_hidden,      \* self.window_hidden
    root_state,         \* self.root.state(): "normal" or "withdrawn"
    tray_icon,          \* self.tray_icon is not None: the tray thread runs
    hotkeys_registered, \* self.hotkeys_registered: the listener thread runs
    after_queue,        \* callbacks scheduled with root.after(0, ...)
    touched,            \* history: the threads that ran code reading or
                        \* writing widgets, window_hidden or settings
    init_pc,            \* __init__: "hotkeys" before _setup_global_hotkeys
                        \* is called, "run" once the main loop runs
    global_hotkey_enabled,  \* self.settings["global_hotkey_enabled"]
    hk_failed,          \* history: registrations attempted that failed
    hk_warned,          \* history: warnings shown for a failed registration
    autorun,            \* self.settings["autorun"]
    run_entry,          \* the Run key of the registry holds the program
    ar_last,            \* history: the last call of set_autorun, a record of
                        \* where it was made, what was asked for, whether
                        \* it succeeded and the flag before it
    \* the name filter's own check: a file name, a glob, whether the filter
    \* of _iter_files lets the name pass, whether fnmatch alone accepts it
    f_name, f_pattern, f_passes, f_glob, f_pc,
    \* one HotkeyThread and the foreground code that starts and stops it
    ht_pc,              \* position of HotkeyThread.run
    ht_thread_id,       \* self.thread_id is set
    ht_stop_event,      \* self.stop_event
    ht_ready_event,     \* self.ready_event
    ht_failed,          \* self.failed
    ht_hotkey_ids,      \* self.hotkey_ids is not empty
    ht_os_registered,   \* Windows holds the hotkeys for the listener thread
    ht_msgs,            \* the message queue of the listener thread
    su_pc,              \* position of the foreground in
                        \* _setup_global_hotkeys and HotkeyThread.stop
    ht_late_call        \* history: the callback was invoked after stop()
                        \* had returned

uiVars == <<folder_var, query_var, ext_var, recursive_var, case_sensitive_var,
            results, status_var, search_btn, stop_btn,
            focus_results_after_search, folder_history, settings,
            search_thread, closed>>

sharedVars == <<stop_event, result_queue>>

histVars == <<put, taken, doneSeen, faults, joined>>

matchVars == <<m_bytes, m_query, m_case, m_raises, m_opened, m_result,
              m_tried, m_pc>>

extVars == <<e_raw, e_pattern, e_pc>>

\* the variables of the checks of single functions
loadVars == <<l_store, l_result, l_pc>>

listenerVars == <<ht_pc, ht_thread_id, ht_stop_event, ht_ready_event,
                 ht_failed, ht_hotkey_ids, ht_os_registered, ht_msgs, su_pc,
                 ht_late_call>>

filterVars == <<f_name, f_pattern, f_passes, f_glob, f_pc>>

pureVars == <<matchVars, extVars, loadVars, listenerVars, filterVars>>

hkVars == <<init_pc, global_hotkey_enabled, hk_failed, hk_warned>>

arVars == <<autorun, run_entry, ar_last>>

shellVars == <<window_hidden, root_state, tray_icon, hotkeys_registered,
               after_queue, touched, hkVars, arVars>>

\* what the handlers of the search leave alone
offVars == <<pureVars, shellVars>>

vars == <<uiVars, sharedVars, workers, histVars, pureVars, shellVars>>

\* the inputs the fields are drawn from
Folders == {"R", "X"}

\* what the user may type into the folder field: also nothing, and a blank
FolderTexts == Folders \cup {"", " "}

\* self.folder_var.get().strip() on the folder texts of the model
FolderStrip(p) == IF p = " " THEN "" ELSE p

Queries == {<<>>, <<"p">>}

ExtInputs == {<<"c">>, <<"*">>}

\* the history keeps at most this many folders
HistoryMax == 15

Status(k, n) == [k |-> k, n |-> n]

Item(val, by) == [val |-> val, by |-> by]

WorkerIds == 1..Len(workers)

\* threading.Thread.is_alive()
IsAlive(w) == workers[w].pc # "dead"

Alive == {w \in WorkerIds : IsAlive(w)}

\* the paths among the items of a sequence
IsPath(item) == item.val # SENTINEL

Vals(items) == [i \in 1..Len(items) |-> items[i].val]

PathsOf(items) == Vals(SelectSeq(items, IsPath))

(***************************************************************************)
(* Foreground handlers.                                                    *)
(***************************************************************************)
\* list.remove(x) where x is in the list or not: the first x is taken out
RECURSIVE RemoveFirst(_, _)
RemoveFirst(hist, x) ==
    IF hist = <<>> THEN <<>>
    ELSE IF Head(hist) = x THEN Tail(hist)
         ELSE <<Head(hist)>> \o RemoveFirst(Tail(hist), x)

\* _update_folder_history
UpdateFolderHistory(hist, folder) ==
    LET moved == <<folder>> \o RemoveFirst(hist, folder)
    IN  SubSeq(moved, 1, IF Len(moved) < HistoryMax THEN Len(moved) ELSE HistoryMax)

\* _on_search_clicked, the guard against a search in progress
SearchInProgressUntilSentinel ==
    search_thread # 0 /\ workers[search_thread].pc \notin {"exit", "dead"}

SearchInProgressNever == FALSE

SearchInProgress == search_thread # 0 /\ IsAlive(search_thread)

\* _on_search_clicked, the validation of the request
RequestInvalidFolderOnly(folder, query) == folder = "" \/ ~IsDir(folder)

RequestInvalid(folder, query) ==
    folder = "" \/ ~IsDir(folder) \/ query = <<>>

\* a worker thread as threading.Thread(target=self._search_worker, args=...)
\* starts it: the pattern is computed and the generator created, nothing of
\* the traversal has run.  observed, how, emitted, atObs, ioAfterStop, fault,
\* enumFault (the enumeration of a directory failed) and skipped (the files
\* on which every attempt to read raised) are history.
NewWorker(folder, query, ext, recursive, case_sensitive) ==
    [pc |-> "iter", folder |-> folder, query |-> query, ext |-> ext,
     recursive |-> recursive, case_sensitive |-> case_sensitive,
     pattern |-> Pattern(ext), todo |-> IterFiles(folder, recursive),
     cur |-> "", observed |-> FALSE, how |-> "", emitted |-> <<>>,
     atObs |-> 0, ioAfterStop |-> 0, fault |-> FALSE,
     enumFault |-> FALSE, skipped |-> {}]

\* _on_search_clicked; from_query is TRUE when _on_query_enter calls it, after
\* setting focus_results_after_search
OnSearchClicked(from_query) ==
    LET folder == FolderStrip(folder_var)
        query == query_var
        stripped == Strip(ext_var)
        ext == SearchExt(ext_var)
        rejected == SearchInProgress \/ RequestInvalid(folder, query)
    IN  /\ ~closed
        /\ from_query \/ search_btn = "normal"
        /\ rejected \/ Len(workers) < MaxSearches
        /\ IF rejected
           THEN /\ focus_results_after_search' =
                       (from_query \/ focus_results_after_search)
                /\ UNCHANGED <<folder_var, query_var, ext_var, recursive_var,
                               case_sensitive_var, results, status_var,
                               search_btn, stop_btn, folder_history, settings,
                               search_thread, closed, sharedVars, workers,
                               histVars>>
           ELSE /\ ext_var' = IF stripped = <<>> THEN ext ELSE ext_var
                /\ focus_results_after_search' = from_query
                /\ results' = <<>>
                /\ put' = SubSeq(put, taken + 1, Len(put))
                /\ taken' = 0
                /\ status_var' = Status("searching", 0)
                /\ search_btn' = "disabled"
                /\ stop_btn' = "normal"
                /\ stop_event' = FALSE
                /\ folder_history' = UpdateFolderHistory(folder_history, folder)
                /\ settings' = [settings EXCEPT
                        !.folder_history = UpdateFolderHistory(folder_history, folder),
                        !.last_folder = folder,
                        !.last_query = query,
                        !.last_extension = ext,
                        !.recursive = recursive_var,
                        !.case_sensitive = case_sensitive_var]
                /\ workers' = Append(workers,
                        NewWorker(folder, query, ext, recursive_var, case_sensitive_var))
                /\ search_thread' = Len(workers) + 1
                /\ UNCHANGED <<folder_var, query_var, recursive_var,
                               case_sensitive_var, closed, result_queue,
                               doneSeen, faults, joined>>
        /\ UNCHANGED offVars

\* the search button
SearchButton == OnSearchClicked(FALSE)

\* _on_query_enter: Enter in the query field
OnQueryEnter == OnSearchClicked(TRUE)

\* _on_stop_clicked (the stop button)
OnStopClicked ==
    /\ ~closed
    /\ stop_btn = "normal"
    /\ stop_event' = TRUE
    /\ status_var' = Status("stop_requested", 0)
    /\ UNCHANGED <<folder_var, query_var, ext_var, recursive_var,
                   case_sensitive_var, results, search_btn, stop_btn,
                   focus_results_after_search, folder_history, settings,
                   search_thread, closed, result_queue, workers, histVars,
                   offVars>>

\* _clear_results (the clear button)
ClearResults ==
    /\ ~closed
    /\ results' = <<>>
    /\ put' = SubSeq(put, taken + 1, Len(put))
    /\ taken' = 0
    /\ status_var' = Status("cleared", 0)
    /\ UNCHANGED <<folder_var, query_var, ext_var, recursive_var,
                   case_sensitive_var, search_btn, stop_btn,
                   focus_results_after_search, folder_history, settings,
                   search_thread, closed, sharedVars, workers,
                   doneSeen, faults, joined, offVars>>

\* self.results.insert(tk.END, item)
InsertResultFirst(list, val) == <<val>> \o list

InsertResult(list, val) == Append(list, val)

\* _poll_queue, the branch taken for the sentinel; st holds what the loop
\* of a tick changes, by is the worker that enqueued the sentinel
OnSentinelKeepsButtons(st, by) ==
    [st EXCEPT !.status = IF Len(st.results) = 0
                          THEN Status("none", 0)
                          ELSE Status("done", Len(st.results)),
               !.focus = FALSE,
               !.doneSeen = @ \cup {by}]

OnSentinel(st, by) ==
    [st EXCEPT !.search_btn = "normal",
               !.stop_btn = "disabled",
               !.status = IF Len(st.results) = 0
                          THEN Status("none", 0)
                          ELSE Status("done", Len(st.results)),
               !.focus = FALSE,
               !.doneSeen = @ \cup {by}]

\* _poll_queue, the loop: the items are taken in queue order until the queue
\* is empty
RECURSIVE Drain(_, _)
Drain(q, st) ==
    IF q = <<>> THEN st
    ELSE IF Head(q).val = SENTINEL
         THEN Drain(Tail(q), OnSentinel(st, Head(q).by))
         ELSE Drain(Tail(q),
                    [st EXCEPT !.results = InsertResult(@, Head(q).val),
                               !.updated = TRUE,
                               !.taken = @ + 1])

\* _poll_queue, after the loop: the status line the tick leaves
StatusAfterPoll(st) ==
    IF st.updated THEN Status("progress", Len(st.results)) ELSE st.status

\* _poll_queue, one tick of the 100 ms timer.  The worker reads nothing the
\* tick writes, so an item enqueued while the loop runs is taken as if it had
\* been enqueued before the tick: the tick takes the whole queue at once.
PollQueue ==
    LET st == Drain(result_queue,
                    [results |-> results, search_btn |-> search_btn,
                     stop_btn |-> stop_btn, status |-> status_var,
                     focus |-> focus_results_after_search, updated |-> FALSE,
                     taken |-> taken, doneSeen |-> doneSeen])
    IN  /\ ~closed
        /\ result_queue' = <<>>
        /\ results' = st.results
        /\ search_btn' = st.search_btn
        /\ stop_btn' = st.stop_btn
        /\ focus_results_after_search' = st.focus
        /\ status_var' = StatusAfterPoll(st)
        /\ taken' = st.taken
        /\ doneSeen' = st.doneSeen
        /\ UNCHANGED <<folder_var, query_var, ext_var, recursive_var,
                       case_sensitive_var, folder_history, settings,
                       search_thread, closed, stop_event, workers,
                       put, faults, joined, offVars>>

\* the user types into the folder field (the combobox bound to folder_var)
EditFolder ==
    /\ ~closed
    /\ \E p \in FolderTexts \ {folder_var} : folder_var' = p
    /\ UNCHANGED <<query_var, ext_var, recursive_var, case_sensitive_var,
                   results, status_var, search_btn, stop_btn,
                   focus_results_after_search, folder_history, settings,
                   search_thread, closed, sharedVars, workers, histVars,
                   offVars>>

\* the user types into the query field (the entry bound to query_var)
EditQuery ==
    /\ ~closed
    /\ \E q \in Queries \ {query_var} : query_var' = q
    /\ UNCHANGED <<folder_var, ext_var, recursive_var, case_sensitive_var,
                   results, status_var, search_btn, stop_btn,
                   focus_results_after_search, folder_history, settings,
                   search_thread, closed, sharedVars, workers, histVars,
                   offVars>>

\* _save_settings: the fields are copied into the settings
SaveSettings ==
    [settings EXCEPT !.last_folder = folder_var,
                     !.last_query = query_var,
                     !.last_extension = ext_var,
                     !.recursive = recursive_var,
                     !.case_sensitive = case_sensitive_var,
                     !.folder_history = folder_history]

\* _cleanup: whether the foreground calls search_thread.join(timeout=0.5)
SearchThreadJoined == search_thread # 0 /\ IsAlive(search_thread)

\* _on_close: _save_settings, then _cleanup (the flag is set, the worker is
\* waited for at most 0.5 s, the tray icon and the hotkey listener are
\* stopped), then the window is destroyed
CloseWindow ==
    /\ ~closed
    /\ init_pc = "run"
    /\ settings' = SaveSettings
    /\ stop_event' = TRUE
    /\ joined' = (joined \/ SearchThreadJoined)
    /\ tray_icon' = FALSE
    /\ hotkeys_registered' = FALSE
    /\ closed' = TRUE
    /\ UNCHANGED <<folder_var, query_var, ext_var, recursive_var,
                   case_sensitive_var, results, status_var, search_btn,
                   stop_btn, focus_results_after_search, folder_history,
                   search_thread, result_queue, workers, put, taken,
                   doneSeen, faults, pureVars,
                   window_hidden, root_state, touched, hkVars, arVars>>

\* WM_DELETE_WINDOW: the user closes the window
OnClose == CloseWindow /\ UNCHANGED after_queue

(***************************************************************************)
(* The worker thread, _search_worker, one step at a time.                  *)
(***************************************************************************)
\* one more file-system operation started while the flag is set
CountIO(n, isIO) == IF isIO /\ stop_event /\ n < MaxCount THEN n + 1 ELSE n

\* a thread that ended: nothing of it is left
DeadWorker ==
    [pc |-> "dead", folder |-> "", query |-> <<>>, ext |-> <<>>,
     recursive |-> FALSE, case_sensitive |-> FALSE,
     pattern |-> <<>>, todo |-> <<>>,
     cur |-> "", observed |-> FALSE, how |-> "", emitted |-> <<>>,
     atObs |-> 0, ioAfterStop |-> 0, fault |-> FALSE,
     enumFault |-> FALSE, skipped |-> {}]

\* where an exception raised by the enumeration leaves the worker: the
\* finally clause
AfterRaiseSkipsFinally == "exit"

AfterRaise == "finally"

\* where the worker goes when stop_event.is_set() is true: break
AfterObserveChecksFile == "match"

AfterObserve == "finally"

\* the worker asks the generator for the next path (for path in files_iter):
\* the generator takes one step of the traversal
WorkerIter(w) ==
    LET me == workers[w]
        head == Head(me.todo)
        rest == Tail(me.todo)
    IN  /\ me.pc = "iter"
        /\ \/ /\ me.todo = <<>>
              /\ workers' = [workers EXCEPT ![w].pc = "finally",
                                            ![w].how = "exhausted"]
              /\ UNCHANGED faults
           \/ /\ me.todo # <<>>
              /\ head.k = "scan"
              /\ workers' = [workers EXCEPT ![w].todo = WalkExpand(head.e, rest),
                                            ![w].ioAfterStop = CountIO(@, IsIO(head))]
              /\ UNCHANGED faults
           \/ \* os.walk drops a directory it cannot enumerate
              /\ me.todo # <<>>
              /\ head.k = "scan"
              /\ faults < MaxFaults
              /\ faults' = faults + 1
              /\ workers' = [workers EXCEPT ![w].todo = rest,
                                            ![w].fault = TRUE,
                                            ![w].enumFault = TRUE,
                                            ![w].ioAfterStop = CountIO(@, IsIO(head))]
           \/ /\ me.todo # <<>>
              /\ head.k = "list"
              /\ workers' = [workers EXCEPT ![w].todo = ListExpand(head.e),
                                            ![w].ioAfterStop = CountIO(@, IsIO(head))]
              /\ UNCHANGED faults
           \/ \* os.listdir raises PermissionError: the generator returns
              /\ me.todo # <<>>
              /\ head.k = "list"
              /\ faults < MaxFaults
              /\ faults' = faults + 1
              /\ workers' = [workers EXCEPT ![w].todo = <<>>,
                                            ![w].fault = TRUE,
                                            ![w].enumFault = TRUE,
                                            ![w].ioAfterStop = CountIO(@, IsIO(head))]
           \/ \* os.listdir raises another error: it leaves the generator
              \* and the for loop
              /\ me.todo # <<>>
              /\ head.k = "list"
              /\ faults < MaxFaults
              /\ faults' = faults + 1
              /\ workers' = [workers EXCEPT ![w].pc = AfterRaise,
                                            ![w].how = "raised",
                                            ![w].fault = TRUE,
                                            ![w].enumFault = TRUE,
                                            ![w].ioAfterStop = CountIO(@, IsIO(head))]
           \/ /\ me.todo # <<>>
              /\ head.k \in {"name", "entry"}
              /\ workers' = [workers EXCEPT
                     ![w].todo = rest,
                     ![w].ioAfterStop = CountIO(@, IsIO(head)),
                     ![w].cur = IF Yields(head, me.pattern) THEN head.e ELSE @,
                     ![w].pc = IF Yields(head, me.pattern) THEN "check" ELSE @]
              /\ UNCHANGED faults
        /\ UNCHANGED <<uiVars, sharedVars, put, taken, doneSeen, joined,
                       offVars>>

\* if self.stop_event.is_set(): break
WorkerCheck(w) ==
    LET me == workers[w]
    IN  /\ me.pc = "check"
        /\ workers' = IF stop_event
                      THEN [workers EXCEPT ![w].pc = AfterObserve,
                                           ![w].observed = TRUE,
                                           ![w].atObs = Len(me.emitted),
                                           ![w].how = "cancelled"]
                      ELSE [workers EXCEPT ![w].pc = "match"]
        /\ UNCHANGED <<uiVars, sharedVars, histVars, offVars>>

\* the sets of encodings whose attempt may raise for one file
RaiseSets == SUBSET {encodings[k] : k \in 1..Len(encodings)}

\* the first k encodings of the list: what decides a check is how many
\* attempts raise before one does not
FirstEncodings(k) == {encodings[i] : i \in 1..k}

\* _file_contains_text on the files of the tree, for each query and each
\* number of leading encodings whose attempt raises
CheckFile ==
    [f \in Files, q \in Queries, cs \in BOOLEAN, k \in 0..Len(encodings) |->
        FileContainsText(FileBytes(f), q, cs, FirstEncodings(k))]

\* where the worker goes after a file on which every attempt raised:
\* _file_contains_text returns False and the loop takes the next path
AfterCheckFailsBreaks == "finally"

AfterCheckFails == "iter"

\* if self._file_contains_text(path, query, case_sensitive): put(path)
WorkerMatch(w) ==
    LET me == workers[w]
    IN  /\ me.pc = "match"
        /\ UNCHANGED <<uiVars, stop_event, taken, doneSeen, joined, offVars>>
        /\ \E k \in 0..Len(encodings) :
              LET raises == FirstEncodings(k)
                  found == CheckFile[me.cur, me.query, me.case_sensitive, k]
                  item == Item(me.cur, w)
              IN  /\ raises = {} \/ faults < MaxFaults
                  /\ faults' = IF raises = {} THEN faults ELSE faults + 1
                  /\ workers' = [workers EXCEPT
                         ![w].pc = IF k = Len(encodings) THEN AfterCheckFails
                                   ELSE "iter",
                         ![w].fault = (@ \/ raises # {}),
                         ![w].skipped = IF k = Len(encodings)
                                        THEN @ \cup {me.cur} ELSE @,
                         ![w].ioAfterStop = CountIO(@, TRUE),
                         ![w].emitted = IF found THEN Append(@, item) ELSE @]
                  /\ result_queue' = IF found THEN Append(result_queue, item)
                                     ELSE result_queue
                  /\ put' = IF found THEN Append(put, me.cur) ELSE put

\* finally: self.result_queue.put("__SEARCH_DONE__")
WorkerFinally(w) ==
    LET me == workers[w]
        item == Item(SENTINEL, w)
    IN  /\ me.pc = "finally"
        /\ workers' = [workers EXCEPT ![w].pc = "exit",
                                      ![w].emitted = Append(@, item)]
        /\ result_queue' = Append(result_queue, item)
        /\ UNCHANGED <<uiVars, stop_event, histVars, offVars>>

\* _search_worker returns and the thread ends
WorkerExit(w) ==
    /\ workers[w].pc = "exit"
    /\ workers' = [workers EXCEPT ![w] = DeadWorker]
    /\ UNCHANGED <<uiVars, sharedVars, histVars, offVars>>

WorkerStep ==
    \E w \in WorkerIds :
        \/ WorkerIter(w)
        \/ WorkerCheck(w)
        \/ WorkerMatch(w)
        \/ WorkerFinally(w)
        \/ WorkerExit(w)

(***************************************************************************)
(* Specifications.                                                         *)
(***************************************************************************)
\* FileSearchGUI.__init__: the fields hold what the settings store gave
InitFields ==
    /\ results = <<>>
    /\ status_var = Status("initial", 0)
    /\ search_btn = "normal"
    /\ stop_btn = "disabled"
    /\ focus_results_after_search = FALSE
    /\ folder_history = <<folder_var>>
    /\ settings = [folder_history |-> <<folder_var>>,
                   last_folder |-> folder_var,
                   last_query |-> query_var,
                   last_extension |-> ext_var,
                   recursive |-> recursive_var,
                   case_sensitive |-> case_sensitive_var]
    /\ search_thread = 0
    /\ closed = FALSE
    /\ stop_event = FALSE
    /\ result_queue = <<>>
    /\ workers = <<>>
    /\ put = <<>>
    /\ taken = 0
    /\ doneSeen = {}
    /\ faults = 0
    /\ joined = FALSE

\* no call of set_autorun yet
NoAutorunCall ==
    [where |-> "none", desired |-> FALSE, success |-> TRUE, prev |-> FALSE]

\* no tray icon (pystray is not installed) and no global hotkey (the
\* platform is not Windows)
ShellOff ==
    /\ window_hidden = FALSE
    /\ root_state = "normal"
    /\ tray_icon = FALSE
    /\ hotkeys_registered = FALSE
    /\ after_queue = <<>>
    /\ touched = {"main"}
    /\ init_pc = "run"
    /\ global_hotkey_enabled = TRUE
    /\ hk_failed = 0
    /\ hk_warned = 0
    /\ autorun = FALSE
    /\ run_entry = FALSE
    /\ ar_last = NoAutorunCall

FilterOff ==
    /\ f_name = <<>>
    /\ f_pattern = <<>>
    /\ f_passes = FALSE
    /\ f_glob = FALSE
    /\ f_pc = "off"

\* no HotkeyThread was created
ListenerOff ==
    /\ ht_pc = "off"
    /\ ht_thread_id = FALSE
    /\ ht_stop_event = FALSE
    /\ ht_ready_event = FALSE
    /\ ht_failed = FALSE
    /\ ht_hotkey_ids = FALSE
    /\ ht_os_registered = FALSE
    /\ ht_msgs = <<>>
    /\ su_pc = "off"
    /\ ht_late_call = FALSE

LoadOff ==
    /\ l_store = [kind |-> "missing", data |-> <<>>]
    /\ l_result = <<>>
    /\ l_pc = "off"

ExtOff ==
    /\ e_raw = <<>>
    /\ e_pattern = <<>>
    /\ e_pc = "off"

MatchOff ==
    /\ m_bytes = <<>>
    /\ m_query = <<>>
    /\ m_case = FALSE
    /\ m_raises = {}
    /\ m_opened = {}
    /\ m_result = FALSE
    /\ m_tried = <<>>
    /\ m_pc = "off"

Init ==
    /\ folder_var \in Folders
    /\ query_var \in Queries
    /\ ext_var \in ExtInputs
    /\ recursive_var \in BOOLEAN
    /\ case_sensitive_var \in BOOLEAN
    /\ InitFields
    /\ MatchOff
    /\ ExtOff
    /\ LoadOff
    /\ ShellOff
    /\ ListenerOff
    /\ FilterOff

Next ==
    \/ SearchButton
    \/ OnQueryEnter
    \/ OnStopClicked
    \/ ClearResults
    \/ PollQueue
    \/ OnClose
    \/ WorkerStep

Spec == Init /\ [][Next]_vars

\* one request (every direct child of R, any name), searched under fair
\* scheduling of the worker thread and of the poll timer: the traversal may
\* end by exhaustion, by the flag or by an exception of os.listdir
InitFair ==
    /\ folder_var = "R"
    /\ query_var = <<"p">>
    /\ ext_var = <<"*">>
    /\ recursive_var = FALSE
    /\ case_sensitive_var = FALSE
    /\ InitFields
    /\ MatchOff
    /\ ExtOff
    /\ LoadOff
    /\ ShellOff
    /\ ListenerOff
    /\ FilterOff

\* the window stays open, so that the poll timer keeps firing
NextFair ==
    \/ SearchButton
    \/ OnQueryEnter
    \/ OnStopClicked
    \/ ClearResults
    \/ PollQueue
    \/ WorkerStep

FairSpec ==
    /\ InitFair
    /\ [][NextFair]_vars
    /\ WF_vars(WorkerStep)
    /\ WF_vars(PollQueue)

\* one request to start with, and a user who also edits the folder and the
\* query fields between the requests
NextEdit ==
    \/ SearchButton
    \/ OnQueryEnter
    \/ OnStopClicked
    \/ ClearResults
    \/ PollQueue
    \/ OnClose
    \/ EditFolder
    \/ EditQuery
    \/ WorkerStep

SpecEdit == InitFair /\ [][NextEdit]_vars

(***************************************************************************)
(* The matcher on its own: _file_contains_text applied to one file.        *)
(***************************************************************************)
SeqsUpTo(S, n) == UNION {[1..k -> S] : k \in 0..n}

QueryChars == {"p", "P", "GA", "DEG"}

InitMatch ==
    /\ m_bytes \in SeqsUpTo(Bytes, MaxBytes)
    /\ m_query \in SeqsUpTo(QueryChars, MaxQuery) \ {<<>>}
    /\ m_case \in BOOLEAN
    /\ m_raises \in RaiseSets
    /\ m_opened \in SUBSET m_raises
    /\ m_result = FALSE
    /\ m_tried = <<>>
    /\ m_pc = "call"
    /\ folder_var = "R"
    /\ query_var = <<>>
    /\ ext_var = <<"c">>
    /\ recursive_var = TRUE
    /\ case_sensitive_var = FALSE
    /\ InitFields
    /\ ExtOff
    /\ LoadOff
    /\ ShellOff
    /\ ListenerOff
    /\ FilterOff

MatchCall ==
    /\ m_pc = "call"
    /\ m_result' = FileContainsText(m_bytes, m_query, m_case, m_raises)
    /\ m_tried' = EncodingsTried(1, m_raises)
    /\ m_pc' = "done"
    /\ UNCHANGED <<m_bytes, m_query, m_case, m_raises, m_opened,
                   uiVars, sharedVars, workers, histVars, extVars,
                   loadVars, listenerVars, filterVars, shellVars>>

NextMatch == MatchCall

SpecMatch == InitMatch /\ [][NextMatch]_vars

(***************************************************************************)
(* The extension normalization on its own: what _on_search_clicked and     *)
(* _search_worker make of the text of the extension field.                 *)
(***************************************************************************)
ExtChars == {" ", ".", "c", "*", "?"}

\* the fields and the rest of the state as after construction, no check of
\* the matcher under way
InitRest ==
    /\ folder_var = "R"
    /\ query_var = <<>>
    /\ ext_var = <<"c">>
    /\ recursive_var = TRUE
    /\ case_sensitive_var = FALSE
    /\ InitFields

InitExt ==
    /\ e_raw \in SeqsUpTo(ExtChars, MaxExt)
    /\ e_pattern = <<>>
    /\ e_pc = "call"
    /\ InitRest
    /\ MatchOff
    /\ LoadOff
    /\ ShellOff
    /\ ListenerOff
    /\ FilterOff

ExtCall ==
    /\ e_pc = "call"
    /\ e_pattern' = Pattern(SearchExt(e_raw))
    /\ e_pc' = "done"
    /\ UNCHANGED <<e_raw, uiVars, sharedVars, workers, histVars, matchVars,
                   loadVars, listenerVars, filterVars, shellVars>>

NextExt == ExtCall

SpecExt == InitExt /\ [][NextExt]_vars

(***************************************************************************)
(* The name filter of _iter_files on its own, for the globs "*.<ext>".     *)
(***************************************************************************)
\* the characters of the extensions and of the file names
GlobChars == {"c", "[", "]"}

NameChars == GlobChars \cup {"."}

InitFilter ==
    /\ f_name \in SeqsUpTo(NameChars, MaxName) \ {<<>>}
    /\ f_pattern \in {<<"*", ".">> \o x : x \in SeqsUpTo(GlobChars, MaxExt)}
    /\ f_passes = FALSE
    /\ f_glob = FALSE
    /\ f_pc = "call"
    /\ InitRest
    /\ MatchOff
    /\ ExtOff
    /\ LoadOff
    /\ ShellOff
    /\ ListenerOff

\* the condition of _iter_files on one name, and its first disjunct alone
FilterCall ==
    /\ f_pc = "call"
    /\ f_passes' = NameFilter(f_name, f_pattern)
    /\ f_glob' = fnmatch(f_name, f_pattern)
    /\ f_pc' = "done"
    /\ UNCHANGED <<f_name, f_pattern, uiVars, sharedVars, workers, histVars,
                   matchVars, extVars, loadVars, listenerVars, shellVars>>

NextFilter == FilterCall

SpecFilter == InitFilter /\ [][NextFilter]_vars

(***************************************************************************)
(* load_settings on its own.  A value is the text of its JSON form.  The   *)
(* store is missing, cannot be read as JSON ("corrupt"), holds JSON that   *)
(* is no object ("other"), or holds an object ("dict") with some keys.     *)
(***************************************************************************)
DEFAULT_SETTINGS ==
    [program_name |-> "SearchConf Finder",
     default_folder |-> "home",
     folder_history |-> "[]",
     last_folder |-> "",
     last_query |-> "",
     last_extension |-> ".conf",
     recursive |-> "true",
     case_sensitive |-> "false",
     autorun |-> "false",
     global_hotkey_enabled |-> "true",
     window_geometry |-> "500x420"]

\* the keys a store may hold: the known ones and one that is not known
StoreKeys == DOMAIN DEFAULT_SETTINGS \cup {"theme"}

StoredValues == {"null", "x"}

Stores ==
    {[kind |-> k, data |-> <<>>] : k \in {"missing", "corrupt", "other"}}
    \cup {[kind |-> "dict", data |-> d] :
              d \in UNION {[K -> StoredValues] :
                               K \in {T \in SUBSET StoreKeys :
                                          Cardinality(T) <= MaxStored}}}

\* {k: v for k, v in data.items() if k in DEFAULT_SETTINGS}
FilterKnownKeepsAll(data) == data

FilterKnown(data) ==
    [k \in DOMAIN data \cap DOMAIN DEFAULT_SETTINGS |-> data[k]]

\* dict.update
Update(m, d) ==
    [k \in DOMAIN m \cup DOMAIN d |-> IF k \in DOMAIN d THEN d[k] ELSE m[k]]

\* load_settings: the defaults when the store is missing or anything
\* raises, the defaults updated with the known keys of the store otherwise
load_settings(store) ==
    IF store.kind = "missing" THEN DEFAULT_SETTINGS
    ELSE IF store.kind \in {"corrupt", "other"} THEN DEFAULT_SETTINGS
    ELSE Update(DEFAULT_SETTINGS, FilterKnown(store.data))

InitLoad ==
    /\ l_store \in Stores
    /\ l_result = <<>>
    /\ l_pc = "call"
    /\ InitRest
    /\ MatchOff
    /\ ExtOff
    /\ ShellOff
    /\ ListenerOff
    /\ FilterOff

LoadCall ==
    /\ l_pc = "call"
    /\ l_result' = load_settings(l_store)
    /\ l_pc' = "done"
    /\ UNCHANGED <<l_store, uiVars, sharedVars, workers, histVars, matchVars,
                   extVars, listenerVars, filterVars, shellVars>>

NextLoad == LoadCall

SpecLoad == InitLoad /\ [][NextLoad]_vars

(***************************************************************************)
(* The window, the tray icon and the global hotkey.  Three threads run     *)
(* code here: the foreground ("main"), the tray thread, which runs the     *)
(* menu callbacks of pystray, and the hotkey listener thread.              *)
(***************************************************************************)
searchVars == <<uiVars, sharedVars, workers, histVars>>

\* _show_window run by thread t; a Tk call may raise (it does when Tk
\* refuses a call from another thread), and the handler passes
ShowWindow(t) ==
    /\ touched' = touched \cup {t}
    /\ \/ root_state' = "normal" /\ window_hidden' = FALSE
       \/ t # "main" /\ UNCHANGED <<root_state, window_hidden>>

\* _hide_window run by thread t
HideWindow(t) ==
    /\ touched' = touched \cup {t}
    /\ \/ root_state' = "withdrawn" /\ window_hidden' = TRUE
       \/ t # "main" /\ UNCHANGED <<root_state, window_hidden>>

\* _toggle_visibility run by thread t
ToggleVisibility(t) ==
    IF window_hidden \/ root_state = "withdrawn"
    THEN ShowWindow(t)
    ELSE HideWindow(t)

\* the tray menu, on_clicked: "open/restore" calls _show_window
TrayOpen ==
    /\ tray_icon
    /\ ShowWindow("tray")
    /\ UNCHANGED <<tray_icon, hotkeys_registered, after_queue, hkVars,
                   arVars, searchVars, pureVars>>

\* the tray menu, on_clicked: "hide/minimize" calls _hide_window
TrayHide ==
    /\ tray_icon
    /\ HideWindow("tray")
    /\ UNCHANGED <<tray_icon, hotkeys_registered, after_queue, hkVars,
                   arVars, searchVars, pureVars>>

\* the tray menu, on_clicked: "quit" schedules _on_close
TrayQuit ==
    /\ tray_icon
    /\ Len(after_queue) < MaxAfter
    /\ after_queue' = Append(after_queue, "close")
    /\ UNCHANGED <<window_hidden, root_state, tray_icon, hotkeys_registered,
                   touched, hkVars, arVars, searchVars, pureVars>>

\* the listener thread got WM_HOTKEY: the callback schedules
\* _toggle_visibility
HotkeyPressed ==
    /\ hotkeys_registered
    /\ Len(after_queue) < MaxAfter
    /\ after_queue' = Append(after_queue, "toggle")
    /\ UNCHANGED <<window_hidden, root_state, tray_icon, hotkeys_registered,
                   touched, hkVars, arVars, searchVars, pureVars>>

\* Ctrl+* in the window (bind_all): the foreground toggles the window
ShortcutToggle ==
    /\ ~closed
    /\ init_pc = "run"
    /\ ToggleVisibility("main")
    /\ UNCHANGED <<tray_icon, hotkeys_registered, after_queue, hkVars,
                   arVars, searchVars, pureVars>>

\* the foreground runs the callback scheduled first
RunAfter ==
    /\ ~closed
    /\ init_pc = "run"
    /\ after_queue # <<>>
    /\ IF Head(after_queue) = "toggle"
       THEN /\ ToggleVisibility("main")
            /\ after_queue' = Tail(after_queue)
            /\ UNCHANGED <<tray_icon, hotkeys_registered, hkVars, arVars,
                           searchVars, pureVars>>
       ELSE /\ CloseWindow
            /\ after_queue' = Tail(after_queue)

\* what the start of a HotkeyThread may come to: the hotkeys are registered,
\* RegisterHotKey failed (thread.failed), or the thread was not ready
\* within 1.5 s
Outcomes == {"ok", "failed", "timeout"}

\* _setup_global_hotkeys on Windows: whether the hotkeys are registered
\* afterwards, what it returns, and whether a registration was attempted
\* and failed
SetupGlobalHotkeys(enabled, outcome) ==
    IF hotkeys_registered THEN [reg |-> TRUE, ret |-> TRUE, failed |-> FALSE]
    ELSE IF ~enabled THEN [reg |-> FALSE, ret |-> FALSE, failed |-> FALSE]
    ELSE IF outcome = "ok" THEN [reg |-> TRUE, ret |-> TRUE, failed |-> FALSE]
    ELSE [reg |-> FALSE, ret |-> FALSE, failed |-> TRUE]

\* __init__: self._setup_global_hotkeys(), the result is not looked at
StartupHotkeys ==
    /\ init_pc = "hotkeys"
    /\ \E o \in Outcomes :
          LET r == SetupGlobalHotkeys(global_hotkey_enabled, o)
          IN  /\ r.failed => hk_failed < MaxHkFails
              /\ hotkeys_registered' = r.reg
              /\ hk_failed' = IF r.failed THEN hk_failed + 1 ELSE hk_failed
    /\ init_pc' = "autorun"
    /\ UNCHANGED <<window_hidden, root_state, tray_icon, after_queue, touched,
                   global_hotkey_enabled, hk_warned, arVars, searchVars,
                   pureVars>>

\* set_autorun(enabled): the registry entry afterwards, given whether the
\* registry calls succeed; a failed call leaves the entry as it was
SetAutorun(enabled, success) == IF success THEN enabled ELSE run_entry

\* _ensure_autorun_state: the flag after set_autorun(desired) returned
EnsureAutorunKeepsFlag(desired, success) == desired

EnsureAutorun(desired, success) ==
    IF ~success /\ desired THEN FALSE ELSE desired

\* __init__: self._ensure_autorun_state(), then the main loop runs
EnsureAutorunState ==
    /\ init_pc = "autorun"
    /\ \E success \in BOOLEAN :
          /\ run_entry' = SetAutorun(autorun, success)
          /\ autorun' = EnsureAutorun(autorun, success)
          /\ ar_last' = [where |-> "startup", desired |-> autorun,
                         success |-> success, prev |-> autorun]
    /\ init_pc' = "run"
    /\ UNCHANGED <<window_hidden, root_state, tray_icon, hotkeys_registered,
                   after_queue, touched, global_hotkey_enabled, hk_failed,
                   hk_warned, searchVars, pureVars>>

\* apply_settings, the autorun checkbox: set_autorun is called when the box
\* differs from the flag, and the flag follows the box when it succeeded
ApplyAutorun(desired_autorun, success) ==
    IF desired_autorun # autorun
    THEN /\ run_entry' = SetAutorun(desired_autorun, success)
         /\ autorun' = IF success THEN desired_autorun ELSE autorun
         /\ ar_last' = [where |-> "dialog", desired |-> desired_autorun,
                        success |-> success, prev |-> autorun]
    ELSE UNCHANGED arVars

\* the warning apply_settings shows when _setup_global_hotkeys returned False
WarnedAfter(ret) == IF ret THEN hk_warned ELSE hk_warned + 1

\* the settings dialog, apply_settings: the autorun checkbox, the hotkey
\* checkbox, then _save_settings
ApplySettings ==
    /\ ~closed
    /\ init_pc = "run"
    /\ \E desired_autorun \in BOOLEAN, success \in BOOLEAN :
          ApplyAutorun(desired_autorun, success)
    /\ \E desired_hotkey \in BOOLEAN, o \in Outcomes :
          IF desired_hotkey # global_hotkey_enabled
          THEN IF desired_hotkey
               THEN LET r == SetupGlobalHotkeys(TRUE, o)
                    IN  /\ r.failed => hk_failed < MaxHkFails
                        /\ hotkeys_registered' = r.reg
                        /\ hk_failed' = IF r.failed THEN hk_failed + 1
                                        ELSE hk_failed
                        /\ hk_warned' = WarnedAfter(r.ret)
                        /\ global_hotkey_enabled' = r.ret
               ELSE /\ hotkeys_registered' = FALSE
                    /\ global_hotkey_enabled' = FALSE
                    /\ UNCHANGED <<hk_failed, hk_warned>>
          ELSE UNCHANGED <<hotkeys_registered, global_hotkey_enabled,
                           hk_failed, hk_warned>>
    /\ settings' = SaveSettings
    /\ UNCHANGED <<folder_var, query_var, ext_var, recursive_var,
                   case_sensitive_var, results, status_var, search_btn,
                   stop_btn, focus_results_after_search, folder_history,
                   search_thread, closed, sharedVars, workers, histVars,
                   pureVars, window_hidden, root_state, tray_icon,
                   after_queue, touched, init_pc>>

\* the state in __init__ before _setup_global_hotkeys is called (on
\* Windows): the tray thread runs when pystray could be loaded
InitShell ==
    /\ window_hidden = FALSE
    /\ root_state = "normal"
    /\ tray_icon \in BOOLEAN
    /\ hotkeys_registered = FALSE
    /\ after_queue = <<>>
    /\ touched = {"main"}
    /\ init_pc = "hotkeys"
    /\ global_hotkey_enabled \in BOOLEAN
    /\ hk_failed = 0
    /\ hk_warned = 0
    /\ autorun \in BOOLEAN
    /\ run_entry \in BOOLEAN
    /\ ar_last = NoAutorunCall
    /\ InitRest
    /\ MatchOff
    /\ ExtOff
    /\ LoadOff
    /\ ListenerOff
    /\ FilterOff

NextShell ==
    \/ StartupHotkeys
    \/ EnsureAutorunState
    \/ ApplySettings
    \/ TrayOpen
    \/ TrayHide
    \/ TrayQuit
    \/ HotkeyPressed
    \/ ShortcutToggle
    \/ RunAfter
    \/ OnClose

SpecShell == InitShell /\ [][NextShell]_vars

(***************************************************************************)
(* The folder history over several runs of the program: folders are chosen *)
(* in the dialog or typed into the field, the window is closed (the        *)
(* settings are saved) and the program is started again on the settings    *)
(* it saved.  The user chooses the folders of FolderNames in their order,  *)
(* or the default folder "R" again.                                        *)
(***************************************************************************)
\* the folders there are to choose, besides "R"
FolderNames ==
    <<"d01", "d02", "d03", "d04", "d05", "d06", "d07", "d08", "d09", "d10",
      "d11", "d12", "d13", "d14", "d15", "d16">>

\* the folders of FolderNames behind all those in the history, by their
\* index
FreshFolders ==
    {i \in 1..Len(FolderNames) :
        \A j \in 1..Len(folder_history), k \in i..Len(FolderNames) :
            folder_history[j] # FolderNames[k]}

\* the first of them
FreshFolder ==
    FolderNames[CHOOSE i \in FreshFolders : \A j \in FreshFolders : i <= j]

\* the user types a folder into the folder field
TypeFolder ==
    /\ ~closed
    /\ FreshFolders # {}
    /\ FreshFolder # folder_var
    /\ folder_var' = FreshFolder
    /\ UNCHANGED <<query_var, ext_var, recursive_var, case_sensitive_var,
                   results, status_var, search_btn, stop_btn,
                   focus_results_after_search, folder_history, settings,
                   search_thread, closed, sharedVars, workers, histVars,
                   offVars>>

\* _browse_folder: askdirectory gave a folder
BrowseFolder ==
    /\ ~closed
    /\ \E folder \in (IF FreshFolders = {} THEN {} ELSE {FreshFolder})
                      \cup {"R"} :
          /\ folder_var' = folder
          /\ folder_history' = UpdateFolderHistory(folder_history, folder)
          /\ settings' = [settings EXCEPT
                  !.last_folder = folder,
                  !.folder_history = UpdateFolderHistory(folder_history, folder)]
    /\ UNCHANGED <<query_var, ext_var, recursive_var, case_sensitive_var,
                   results, status_var, search_btn, stop_btn,
                   focus_results_after_search, search_thread, closed,
                   sharedVars, workers, histVars, offVars>>

\* _apply_initial_values: the history after the folder to start with (the
\* last folder, or the default folder, "R" here, when there is none) was
\* put first
ApplyInitialValues(hist, last_folder) ==
    LET first == IF last_folder = "" THEN "R" ELSE last_folder
    IN  <<first>> \o RemoveFirst(hist, first)

\* the program is started again after the window was closed: load_settings
\* gives the settings saved, __init__ and _apply_initial_values fill the
\* fields from them
Startup ==
    /\ closed
    /\ LET hist == ApplyInitialValues(settings.folder_history,
                                      settings.last_folder)
       IN  /\ folder_history' = hist
           /\ folder_var' = hist[1]
           /\ settings' = [settings EXCEPT !.folder_history = hist]
    /\ query_var' = settings.last_query
    /\ ext_var' = IF Strip(settings.last_extension) = <<>> THEN DefaultExt
                  ELSE settings.last_extension
    /\ recursive_var' = settings.recursive
    /\ case_sensitive_var' = settings.case_sensitive
    /\ results' = <<>>
    /\ status_var' = Status("initial", 0)
    /\ search_btn' = "normal"
    /\ stop_btn' = "disabled"
    /\ focus_results_after_search' = FALSE
    /\ search_thread' = 0
    /\ closed' = FALSE
    /\ stop_event' = FALSE
    /\ result_queue' = <<>>
    /\ workers' = <<>>
    /\ put' = <<>>
    /\ taken' = 0
    /\ doneSeen' = {}
    /\ joined' = FALSE
    /\ UNCHANGED <<faults, offVars>>

\* the first run starts on an empty history and the default folder
InitHistory ==
    /\ InitRest
    /\ MatchOff
    /\ ExtOff
    /\ LoadOff
    /\ ShellOff
    /\ ListenerOff
    /\ FilterOff

NextHistory ==
    \/ TypeFolder
    \/ BrowseFolder
    \/ OnClose
    \/ Startup

SpecHistory == InitHistory /\ [][NextHistory]_vars

(***************************************************************************)
(* One HotkeyThread, a statement at a time, and the foreground code that   *)
(* starts it (_setup_global_hotkeys) and stops it (HotkeyThread.stop,      *)
(* called when the thread was not ready in time, when it failed, or from   *)
(* _unregister_global_hotkeys).  The message queue of the thread is first  *)
(* in, first out.  What the callback schedules is HotkeyPressed above.     *)
(***************************************************************************)
nonListenerVars == <<uiVars, sharedVars, workers, histVars, matchVars,
                     extVars, loadVars, filterVars, shellVars>>

\* _setup_global_hotkeys: thread.start()
SetupStart ==
    /\ su_pc = "start"
    /\ ht_pc' = "thread_id"
    /\ su_pc' = "wait"
    /\ UNCHANGED <<ht_thread_id, ht_stop_event, ht_ready_event, ht_failed,
                   ht_hotkey_ids, ht_os_registered, ht_msgs, ht_late_call,
                   nonListenerVars>>

\* _setup_global_hotkeys: thread.ready_event.wait(timeout=1.5) returns; the
\* 1.5 s may run out while the event is not set
SetupWait ==
    /\ su_pc = "wait"
    /\ su_pc' = IF ht_ready_event THEN "check_failed" ELSE "stop_set"
    /\ UNCHANGED <<ht_pc, ht_thread_id, ht_stop_event, ht_ready_event,
                   ht_failed, ht_hotkey_ids, ht_os_registered, ht_msgs,
                   ht_late_call, nonListenerVars>>

\* _setup_global_hotkeys: if thread.failed: thread.stop(); otherwise the
\* thread is kept in self.hotkey_thread
SetupCheckFailed ==
    /\ su_pc = "check_failed"
    /\ su_pc' = IF ht_failed THEN "stop_set" ELSE "registered"
    /\ UNCHANGED <<ht_pc, ht_thread_id, ht_stop_event, ht_ready_event,
                   ht_failed, ht_hotkey_ids, ht_os_registered, ht_msgs,
                   ht_late_call, nonListenerVars>>

\* _unregister_global_hotkeys (the hotkey is disabled in the settings
\* dialog, or _cleanup runs): self.hotkey_thread.stop() is called
UnregisterGlobalHotkeys ==
    /\ su_pc = "registered"
    /\ su_pc' = "stop_set"
    /\ UNCHANGED <<ht_pc, ht_thread_id, ht_stop_event, ht_ready_event,
                   ht_failed, ht_hotkey_ids, ht_os_registered, ht_msgs,
                   ht_late_call, nonListenerVars>>

\* HotkeyThread.stop: self.stop_event.set()
StopSet ==
    /\ su_pc = "stop_set"
    /\ ht_stop_event' = TRUE
    /\ su_pc' = "stop_post"
    /\ UNCHANGED <<ht_pc, ht_thread_id, ht_ready_event, ht_failed,
                   ht_hotkey_ids, ht_os_registered, ht_msgs, ht_late_call,
                   nonListenerVars>>

\* HotkeyThread.stop: if self.thread_id: PostThreadMessageW(WM_QUIT)
StopPost ==
    /\ su_pc = "stop_post"
    /\ ht_msgs' = IF ht_thread_id THEN Append(ht_msgs, "WM_QUIT") ELSE ht_msgs
    /\ su_pc' = "stop_unregister"
    /\ UNCHANGED <<ht_pc, ht_thread_id, ht_stop_event, ht_ready_event,
                   ht_failed, ht_hotkey_ids, ht_os_registered, ht_late_call,
                   nonListenerVars>>

\* HotkeyThread.stop: self._unregister_hotkeys() on the calling thread.
\* The list is emptied; whether UnregisterHotKey, called by a thread other
\* than the one that registered, takes the hotkeys away is left open.
StopUnregister ==
    /\ su_pc = "stop_unregister"
    /\ ht_hotkey_ids' = FALSE
    /\ \/ ht_os_registered' = ht_os_registered
       \/ ht_hotkey_ids /\ ht_os_registered' = FALSE
    /\ su_pc' = "stop_ready"
    /\ UNCHANGED <<ht_pc, ht_thread_id, ht_stop_event, ht_ready_event,
                   ht_failed, ht_msgs, ht_late_call, nonListenerVars>>

\* HotkeyThread.stop: self.ready_event.set(), and stop() returns
StopReady ==
    /\ su_pc = "stop_ready"
    /\ ht_ready_event' = TRUE
    /\ su_pc' = "returned"
    /\ UNCHANGED <<ht_pc, ht_thread_id, ht_stop_event, ht_failed,
                   ht_hotkey_ids, ht_os_registered, ht_msgs, ht_late_call,
                   nonListenerVars>>

\* run: self.thread_id = GetCurrentThreadId()
RunThreadId ==
    /\ ht_pc = "thread_id"
    /\ ht_thread_id' = TRUE
    /\ ht_pc' = "register"
    /\ UNCHANGED <<ht_stop_event, ht_ready_event, ht_failed, ht_hotkey_ids,
                   ht_os_registered, ht_msgs, su_pc, ht_late_call,
                   nonListenerVars>>

\* run: self._register_hotkeys(); RegisterHotKey succeeds for both
\* combinations, or fails for one, and then what was registered is
\* unregistered and self.failed set
RunRegister ==
    /\ ht_pc = "register"
    /\ \E ok \in BOOLEAN :
          /\ ht_failed' = ~ok
          /\ ht_hotkey_ids' = ok
          /\ ht_os_registered' = ok
    /\ ht_pc' = "ready"
    /\ UNCHANGED <<ht_thread_id, ht_stop_event, ht_ready_event, ht_msgs,
                   su_pc, ht_late_call, nonListenerVars>>

\* run: self.ready_event.set(); if self.failed: return
RunReady ==
    /\ ht_pc = "ready"
    /\ ht_ready_event' = TRUE
    /\ ht_pc' = IF ht_failed THEN "done" ELSE "get_message"
    /\ UNCHANGED <<ht_thread_id, ht_stop_event, ht_failed, ht_hotkey_ids,
                   ht_os_registered, ht_msgs, su_pc, ht_late_call,
                   nonListenerVars>>

\* run: GetMessageW returns the first message of the queue (it blocks while
\* the queue is empty): 0 for WM_QUIT ends the loop, WM_HOTKEY goes to the
\* callback
RunGetMessage ==
    /\ ht_pc = "get_message"
    /\ ht_msgs # <<>>
    /\ ht_msgs' = Tail(ht_msgs)
    /\ ht_pc' = IF Head(ht_msgs) = "WM_QUIT" THEN "unregister" ELSE "callback"
    /\ UNCHANGED <<ht_thread_id, ht_stop_event, ht_ready_event, ht_failed,
                   ht_hotkey_ids, ht_os_registered, su_pc, ht_late_call,
                   nonListenerVars>>

\* HotkeyThread.stop() has returned
StopReturned == su_pc = "returned"

\* run: self.callback()
RunCallback ==
    /\ ht_pc = "callback"
    /\ ht_late_call' = (ht_late_call \/ StopReturned)
    /\ ht_pc' = "check_stop"
    /\ UNCHANGED <<ht_thread_id, ht_stop_event, ht_ready_event, ht_failed,
                   ht_hotkey_ids, ht_os_registered, ht_msgs, su_pc,
                   nonListenerVars>>

\* run: if self.stop_event.is_set(): break
RunCheckStop ==
    /\ ht_pc = "check_stop"
    /\ ht_pc' = IF ht_stop_event THEN "unregister" ELSE "get_message"
    /\ UNCHANGED <<ht_thread_id, ht_stop_event, ht_ready_event, ht_failed,
                   ht_hotkey_ids, ht_os_registered, ht_msgs, su_pc,
                   ht_late_call, nonListenerVars>>

\* run: self._unregister_hotkeys() after the loop, and the thread ends;
\* Windows drops the hotkeys of a thread that ended
RunUnregister ==
    /\ ht_pc = "unregister"
    /\ ht_hotkey_ids' = FALSE
    /\ ht_os_registered' = FALSE
    /\ ht_pc' = "done"
    /\ UNCHANGED <<ht_thread_id, ht_stop_event, ht_ready_event, ht_failed,
                   ht_msgs, su_pc, ht_late_call, nonListenerVars>>

\* the user presses the hotkey while Windows holds it for the listener
\* thread: WM_HOTKEY is posted to the thread's queue
PostHotkey ==
    /\ ht_os_registered
    /\ Len(SelectSeq(ht_msgs, LAMBDA m : m = "WM_HOTKEY")) < MaxMsgs
    /\ ht_msgs' = Append(ht_msgs, "WM_HOTKEY")
    /\ UNCHANGED <<ht_pc, ht_thread_id, ht_stop_event, ht_ready_event,
                   ht_failed, ht_hotkey_ids, ht_os_registered, su_pc,
                   ht_late_call, nonListenerVars>>

\* _setup_global_hotkeys on Windows with the hotkey enabled, before
\* thread.start()
InitListener ==
    /\ ht_pc = "off"
    /\ ht_thread_id = FALSE
    /\ ht_stop_event = FALSE
    /\ ht_ready_event = FALSE
    /\ ht_failed = FALSE
    /\ ht_hotkey_ids = FALSE
    /\ ht_os_registered = FALSE
    /\ ht_msgs = <<>>
    /\ su_pc = "start"
    /\ ht_late_call = FALSE
    /\ InitRest
    /\ MatchOff
    /\ ExtOff
    /\ LoadOff
    /\ ShellOff
    /\ FilterOff

NextListener ==
    \/ SetupStart
    \/ SetupWait
    \/ SetupCheckFailed
    \/ UnregisterGlobalHotkeys
    \/ StopSet
    \/ StopPost
    \/ StopUnregister
    \/ StopReady
    \/ RunThreadId
    \/ RunRegister
    \/ RunReady
    \/ RunGetMessage
    \/ RunCallback
    \/ RunCheckStop
    \/ RunUnregister
    \/ PostHotkey

SpecListener == InitListener /\ [][NextListener]_vars

(***************************************************************************)
(* Properties.                                                             *)
(***************************************************************************)
SentinelOf(w) == Item(SENTINEL, w)

\* how many times the sentinel of worker w is in the queue
SentinelsQueued(w) ==
    Cardinality({i \in 1..Len(result_queue) : result_queue[i] = SentinelOf(w)})

\* C1: every worker enqueues exactly one sentinel, as its last item: none
\* while it still runs its loop, one (queued or taken by the foreground) once
\* it left the finally clause, and no item of that worker behind it, whether
\* the traversal was exhausted, cancelled or left by an exception.
C1_OneSentinelLast ==
    \A w \in WorkerIds :
        LET me == workers[w]
            e == me.emitted
            finished == me.pc \in {"exit", "dead"}
        IN  /\ SentinelsQueued(w) + (IF w \in doneSeen THEN 1 ELSE 0)
                   = (IF finished THEN 1 ELSE 0)
            /\ me.pc = "exit" =>
                   /\ e # <<>>
                   /\ e[Len(e)] = SentinelOf(w)
                   /\ \A i \in 1..(Len(e) - 1) : e[i] # SentinelOf(w)
            /\ ~finished => \A i \in 1..Len(e) : e[i] # SentinelOf(w)
            /\ \A i, j \in 1..Len(result_queue) :
                   (i < j /\ result_queue[i] = SentinelOf(w))
                       => result_queue[j].by # w

\* a worker whose enumeration raised has enqueued its sentinel
C1_Witness ==
    \E w \in WorkerIds :
        /\ workers[w].pc = "exit"
        /\ workers[w].how = "raised"
        /\ SentinelsQueued(w) = 1

Idle == search_btn = "normal" /\ stop_btn = "disabled"

\* C2: under fair scheduling of the worker and of the poll timer (the window
\* stays open), every accepted search leads to a state in which the
\* foreground has taken that search's sentinel and the controls are idle
\* (search enabled, stop disabled), whether or not stop was requested.
C2_SearchCompletes ==
    \A s \in 1..MaxSearches :
        (Len(workers) >= s /\ s \notin doneSeen) ~> (s \in doneSeen /\ Idle)

\* a search that was stopped has been completed
C2_Witness ==
    /\ 1 \in doneSeen
    /\ stop_event
    /\ Idle
    /\ ~closed
    /\ result_queue = <<>>

\* a search is Running from its acceptance until its sentinel is taken
Running == \E w \in WorkerIds : w \notin doneSeen

\* C3: while a search is Running, _on_search_clicked (from the button or
\* from Enter in the query field) starts no worker and leaves the result
\* list as it is.
C3_RejectedWhileRunning ==
    [][(Running /\ (SearchButton \/ OnQueryEnter))
           => (workers' = workers /\ results' = results)]_vars

\* C4: a poll tick that took a sentinel leaves the final summary in the
\* status line (complete with the count, or complete with no match), the
\* search control enabled and the stop control disabled.
C4_FinalStatusAfterSentinel ==
    [][(doneSeen' # doneSeen)
           => /\ status_var'.k \in {"done", "none"}
              /\ search_btn' = "normal"
              /\ stop_btn' = "disabled"]_vars

\* C5: the result list holds the paths in the order the workers enqueued
\* them, none lost and none twice: the list is the part already taken, and
\* the queue the part not yet taken, of the paths enqueued since the list
\* was last cleared.
C5_ResultsInOrder ==
    /\ taken <= Len(put)
    /\ results = SubSeq(put, 1, taken)
    /\ PathsOf(result_queue) = SubSeq(put, taken + 1, Len(put))

\* two paths are in the list and a third waits in the queue
C5_Witness ==
    /\ Len(results) = 2
    /\ PathsOf(result_queue) # <<>>

\* C6: a step of a worker that has observed the flag set enqueues nothing
\* but its sentinel, and leaves the result list as it is.
C6_NoPathAfterObserved ==
    [][\A w \in WorkerIds :
           (workers[w].observed /\ workers'[w] # workers[w])
               => /\ results' = results
                  /\ \/ result_queue' = result_queue
                     \/ result_queue' = Append(result_queue, SentinelOf(w))]_vars

\* a worker that had emitted a path observed the flag and has enqueued its
\* sentinel, and the path is in the list
C6_Witness ==
    \E w \in WorkerIds :
        /\ workers[w].observed
        /\ workers[w].pc = "exit"
        /\ workers[w].atObs >= 1
        /\ results # <<>>

\* C7: the file-system operations a worker starts after the flag is set are
\* at most those of one file: the stat of its entry and its open (while the
\* window is open: closing sets the flag too).
C7_BoundedWorkAfterStop ==
    ~closed => \A w \in WorkerIds : workers[w].ioAfterStop <= 2

\* C8: at most one worker thread is alive.
C8_AtMostOneWorker == Cardinality(Alive) <= 1

\* a second worker runs while the sentinel of the first is still in the queue
C8_Witness ==
    /\ Len(workers) = 2
    /\ IsAlive(2)
    /\ ~IsAlive(1)
    /\ SentinelsQueued(1) = 1

\* the files in scope, in traversal order: a directory's files, then its
\* subdirectories' in turn
RECURSIVE FilesUnder(_)
RECURSIVE FilesUnderAll(_)
FilesUnderAll(ds) ==
    IF ds = <<>> THEN <<>> ELSE FilesUnder(Head(ds)) \o FilesUnderAll(Tail(ds))

FilesUnder(d) == WalkFiles(d) \o FilesUnderAll(WalkDirs(d))

Scope(folder, recursive) ==
    IF recursive THEN FilesUnder(folder) ELSE SelectSeq(DirEntries(folder), IsFile)

Expected(folder, ext, query, recursive, case_sensitive) ==
    LET Matches(f) ==
            /\ fnmatch(EntryName(f), Pattern(ext))
            /\ ScanLines(Decode(encodings[1], FileBytes(f)), query, case_sensitive)
    IN  SelectSeq(Scope(folder, recursive), Matches)

RECURSIVE FirstValidFrom(_, _)
FirstValidFrom(k, bs) ==
    IF k >= Len(encodings) \/ DecodesStrictly(encodings[k], bs)
    THEN encodings[k]
    ELSE FirstValidFrom(k + 1, bs)

\* C10: a file that can be opened, whose bytes are not valid utf-8 but are
\* valid in a later encoding of the list, is matched or not according to
\* its content as that later encoding decodes it.
C10_EncodingFallback ==
    (m_pc = "done" /\ m_raises = {} /\ ~DecodesStrictly("utf-8", m_bytes))
        => m_result = ScanLines(Decode(FirstValidFrom(2, m_bytes), m_bytes),
                                m_query, m_case)

\* the positions in the list of the encodings under which the open succeeds:
\* the attempt does not raise, or it raises while reading
OpensAt == {k \in 1..Len(encodings) :
               encodings[k] \notin m_raises \/ encodings[k] \in m_opened}

\* C11: the first encoding of the list whose open succeeds is the last one
\* attempted, also when reading under it raises, and its result is the
\* file's result when it returned one; when no open succeeds every encoding
\* was attempted and the file does not match.
C11_FirstOpenIsFinal ==
    m_pc = "done" =>
        IF OpensAt = {}
        THEN m_result = FALSE /\ m_tried = encodings
        ELSE LET k == CHOOSE i \in OpensAt : \A j \in OpensAt : i <= j
             IN  /\ m_tried = SubSeq(encodings, 1, k)
                 /\ encodings[k] \notin m_raises =>
                        m_result = ScanLines(Decode(encodings[k], m_bytes),
                                             m_query, m_case)

HasWildcard(s) == HasChar(s, "*") \/ HasChar(s, "?")

\* what the rules of the claim make of an extension text
NormalizedAsClaimed(x) ==
    IF Strip(x) = <<>> THEN <<"*">> \o DefaultExt
    ELSE IF HasWildcard(x) THEN x
    ELSE IF StartsWith(x, <<".">>) THEN <<"*">> \o x
    ELSE <<"*", ".">> \o x

\* C12 as stated: the rules applied to the text of the extension field as
\* it was entered.
C12_Normalization ==
    e_pc = "done" => e_pattern = NormalizedAsClaimed(e_raw)

\* C12, amended: the rules applied to the text of the extension field with
\* its leading and trailing whitespace removed: empty gives "*.conf", a text
\* with a wildcard is the glob, a text starting with "." is prefixed with
\* "*", any other with "*.".
C12_NormalizationOfStripped ==
    e_pc = "done" => e_pattern = NormalizedAsClaimed(Strip(e_raw))

\* a text with a space before it was normalized
C12_Witness ==
    /\ e_pc = "done"
    /\ e_raw = <<" ", "c">>
    /\ e_pattern = <<"*", ".", "c">>

C14_InvalidRequestRejected ==
    [][((SearchButton \/ OnQueryEnter)
            /\ (\/ folder_var \in {"", " "}
                \/ folder_var \notin Dirs
                \/ query_var = <<>>))
           => UNCHANGED <<workers, search_thread, results, result_queue,
                          stop_event, search_btn, stop_btn, settings>>]_vars

\* Enter in the query field was rejected for a blank folder after a search
\* had filled the result list: the list is still there and no second worker
\* was started
C14_Witness ==
    /\ folder_var = " "
    /\ focus_results_after_search
    /\ doneSeen = {1}
    /\ Len(workers) = 1
    /\ results # <<>>
    /\ Idle

\* C15: the final status line a poll tick leaves on taking the sentinel of
\* a worker shows the number of paths that worker emitted, and shows "no
\* match" exactly when it emitted none.
C15_FinalCountIsEmitted ==
    [][\A w \in WorkerIds :
           (/\ w \in doneSeen' /\ w \notin doneSeen
            /\ workers[w].pc = "exit"
            /\ status_var'.k \in {"done", "none"})
               => LET n == Len(PathsOf(workers[w].emitted))
                  IN  /\ (status_var'.k = "none") <=> (n = 0)
                      /\ status_var'.k = "done" => status_var'.n = n]_vars

\* C16: no thread other than the foreground runs code that reads or writes
\* widgets, the window's visibility, window_hidden or the settings: the
\* tray and the hotkey listener threads only schedule work with root.after.
C16_OnlyForegroundTouchesUI == touched \subseteq {"main"}

\* C17: the foreground never waits for the worker: no handler has blocked
\* in a join on the worker thread.
C17_ForegroundNeverWaits == ~joined

\* C18: the flag goes from set to unset only in a step of _on_search_clicked
\* that accepts a search, taken while no worker is alive: while a worker is
\* alive the flag only goes from unset to set.
C18_FlagMonotonic ==
    [][(stop_event /\ ~stop_event')
           => /\ SearchButton \/ OnQueryEnter
              /\ Len(workers') = Len(workers) + 1
              /\ Alive = {}]_vars

\* the first search was cut short by the flag (it emitted the first of two
\* matching files, with no I/O fault), and a second search runs with the
\* flag cleared
C18_Witness ==
    /\ Len(workers) = 2
    /\ IsAlive(2)
    /\ ~stop_event
    /\ faults = 0
    /\ folder_var = "R" /\ query_var = <<"p">> /\ ext_var = <<"*">>
    /\ ~recursive_var /\ ~case_sensitive_var
    /\ result_queue = <<Item("f1", 1), Item(SENTINEL, 1)>>

\* C19: every registration of the global hotkey that was attempted and
\* failed, at startup or from the settings dialog, has been reported with
\* a warning.
C19_HotkeyFailureReported == hk_warned >= hk_failed

\* C20: the mapping load_settings returns has exactly the keys of the
\* defaults; a key the store holds has the stored value, any other its
\* default; a key of the store that is not known is not in it; a missing or
\* unreadable store gives the defaults.
C20_LoadSettingsMerges ==
    l_pc = "done" =>
        /\ DOMAIN l_result = DOMAIN DEFAULT_SETTINGS
        /\ \A k \in DOMAIN DEFAULT_SETTINGS :
               l_result[k] = IF k \in DOMAIN l_store.data
                             THEN l_store.data[k]
                             ELSE DEFAULT_SETTINGS[k]
        /\ l_store.kind \in {"missing", "corrupt"} => l_result = DEFAULT_SETTINGS

\* a store holding a known and an unknown key was loaded
C20_Witness ==
    /\ l_pc = "done"
    /\ DOMAIN l_store.data = {"last_query", "theme"}
    /\ l_result.last_query = "x"
    /\ l_result.recursive = "true"

\* C21: a call of set_autorun that failed never leaves the stored autorun
\* flag true when it asked to enable: after a failed call at startup the
\* flag is false, after a failed call from the settings dialog the flag has
\* the value it had before
C21_FailedAutorunKeepsFlagOff ==
    ~ar_last.success =>
        /\ ar_last.desired => ~autorun
        /\ ar_last.where = "startup" => ~autorun
        /\ ar_last.where = "dialog" => autorun = ar_last.prev

\* a failed enable at startup with the stored flag true, and the main loop
\* runs afterwards
C21_Witness ==
    /\ ar_last = [where |-> "startup", desired |-> TRUE, success |-> FALSE,
                  prev |-> TRUE]
    /\ init_pc = "run"
    /\ ~closed

\* a failed enable from the settings dialog, and the window is still open
C21_WitnessDialog ==
    /\ ar_last = [where |-> "dialog", desired |-> TRUE, success |-> FALSE,
                  prev |-> FALSE]
    /\ ~closed

\* C22: the foreground applies no path and no sentinel of an earlier search
\* once a later search has been accepted: every item a poll tick takes from
\* the queue was enqueued by the worker of the search accepted last, so that
\* the list holds only that search's paths when its sentinel is taken.
C22_NoStaleItemApplied ==
    [][(~closed /\ result_queue # <<>> /\ result_queue' = <<>>)
           => \A i \in 1..Len(result_queue) :
                  result_queue[i].by = Len(workers)]_vars

\* C23: while a worker thread is alive and has not yet enqueued its
\* sentinel (it can still be cancelled), the stop control is enabled and
\* the search control is disabled.
C23_RunningSearchCancellable ==
    \A w \in WorkerIds :
        (~closed /\ workers[w].pc \notin {"exit", "dead"})
            => (stop_btn = "normal" /\ search_btn = "disabled")

\* C24: once HotkeyThread.stop() has returned, the listener thread does not
\* invoke the callback again, in any interleaving of stop() with the
\* thread's startup and message loop.
C24_NoCallbackAfterStop == ~ht_late_call

\* the listener thread waits in GetMessageW with nothing queued after
\* stop() has returned: no WM_QUIT was posted and none will be
C24_BlockedAfterStop ==
    /\ StopReturned
    /\ ht_pc = "get_message"
    /\ ht_msgs = <<>>

\* C25: in every state from startup on, the folder history holds at most
\* HistoryMax (15) entries and holds no folder twice.
C25_HistoryBoundedDistinct ==
    /\ Len(folder_history) <= HistoryMax
    /\ \A i, j \in 1..Len(folder_history) :
           folder_history[i] = folder_history[j] => i = j

\* what holds of the history in every state: no folder twice
C25_HistoryDistinct ==
    \A i, j \in 1..Len(folder_history) :
        folder_history[i] = folder_history[j] => i = j

====
